---- MODULE Spec2Model ----
(***************************************************************************)
(* Bungee-jump case study (notebooks/jump.ipynb): Params, make_system,     *)
(* spring_force, drag_force, slope_func, event_func and the runs of        *)
(* run_ode_solver that the notebook performs.                              *)
(*                                                                         *)
(* Numbers.  The notebook computes with Python floats.  Here a real x is   *)
(* the integer round(x * Scale): a decimal fixed-point number with four    *)
(* fractional digits.  Products and quotients are rounded to the nearest   *)
(* representable value on the magnitude, the sign being applied afterwards *)
(* (as IEEE arithmetic does), so that negation is exact.  All values stay  *)
(* below 2^31.                                                             *)
(***************************************************************************)
EXTENDS Integers, Sequences, FiniteSets

VARIABLES
    args,      \* keyword arguments handed to Params(...)
    params,    \* the Params object, once constructed
    system,    \* the System object, once made
    pc,        \* position in the notebook / of the current call
    state,     \* State(y, v) as <<y, v>>
    t,         \* current time of the solver (or the t argument of a call)
    results,   \* TimeFrame returned by run_ode_solver: rows [t, y, v]
    details,   \* details returned by run_ode_solver
    events,    \* whether event_func was passed as events=
    solver,    \* root-finder state of the cord-length search
    ret        \* return value of the last force / slope call

vars == <<args, params, system, pc, state, t, results, details, events, solver, ret>>

-----------------------------------------------------------------------------
(* Fixed-point arithmetic standing for float arithmetic *)

Scale == 100 * 100

F(n) == n * Scale

Dec(n, d) == (n * Scale) \div d

Abs(x) == IF x < 0 THEN -x ELSE x

\* np.sign: -1, 0 or 1
Sign(x) == IF x > 0 THEN 1 ELSE IF x < 0 THEN -1 ELSE 0

MulMag(a, b) ==
    LET ah == a \div Scale
        al == a % Scale
        bh == b \div Scale
        bl == b % Scale
    IN  ah * bh * Scale + ah * bl + al * bh + (al * bl + Scale \div 2) \div Scale

\* a * b
FMul(a, b) == Sign(a) * Sign(b) * MulMag(Abs(a), Abs(b))

RECURSIVE LongDiv(_, _, _, _)
LongDiv(q, r, b, s) ==
    IF s = 1
    THEN IF 2 * r >= b THEN q + 1 ELSE q
    ELSE LongDiv(q * 10 + (r * 10) \div b, (r * 10) % b, b, s \div 10)

\* a / b  (b # 0)
FDiv(a, b) ==
    Sign(a) * Sign(b) * LongDiv(Abs(a) \div Abs(b), Abs(a) % Abs(b), Abs(b), Scale)

-----------------------------------------------------------------------------
(* The notebook's definitions *)

\* params = Params(y_attach = 80 m, v_init = 0 m/s, g = 9.8 m/s^2, mass = 75 kg,
\*                 area = 1 m^2, rho = 1.2 kg/m^3, v_term = 60 m/s, L = 25 m,
\*                 k = 40 N/m, zero_force = 0 N)
NotebookParams ==
    [y_attach |-> F(80), v_init |-> F(0), g |-> Dec(98, 10), mass |-> F(75),
     area |-> F(1), rho |-> Dec(12, 10), v_term |-> F(60), L |-> F(25),
     k |-> F(40), zero_force |-> F(0)]

\* t_end = 20 * s
T_END == 20

\* C_d = mass * g / (...): the factor 2 of the force balance forgotten
make_system_half(p) ==
    [y_attach |-> p.y_attach, v_init |-> p.v_init, g |-> p.g, mass |-> p.mass,
     area |-> p.area, rho |-> p.rho, v_term |-> p.v_term, L |-> p.L, k |-> p.k,
     zero_force |-> p.zero_force,
     C_d |-> FDiv(FMul(p.mass, p.g),
                  FMul(FMul(p.rho, p.area), FMul(p.v_term, p.v_term))),
     init |-> <<p.y_attach, p.v_init>>,
     t_end |-> F(T_END)]

make_system(p) ==
    [y_attach |-> p.y_attach, v_init |-> p.v_init, g |-> p.g, mass |-> p.mass,
     area |-> p.area, rho |-> p.rho, v_term |-> p.v_term, L |-> p.L, k |-> p.k,
     zero_force |-> p.zero_force,
     C_d |-> FDiv(FMul(2 * p.mass, p.g),
                  FMul(FMul(p.rho, p.area), FMul(p.v_term, p.v_term))),
     init |-> <<p.y_attach, p.v_init>>,
     t_end |-> F(T_END)]

\* extension taken as the whole distance fallen (L not subtracted)
spring_force_no_rest(y, sys) ==
    LET distance_fallen == sys.y_attach - y
    IN  IF distance_fallen <= sys.L
        THEN sys.zero_force
        ELSE FMul(sys.k, distance_fallen)

spring_force(y, sys) ==
    LET distance_fallen == sys.y_attach - y
    IN  IF distance_fallen <= sys.L
        THEN sys.zero_force
        ELSE LET extension == distance_fallen - sys.L
             IN  FMul(sys.k, extension)

\* np.sign(v) dropped: drag always points down
drag_force_unsigned(v, sys) ==
    FDiv(FMul(FMul(FMul(-sys.rho, FMul(v, v)), sys.C_d), sys.area), F(2))

\* the leading minus dropped: drag pushes along the motion
drag_force_along(v, sys) ==
    FDiv(FMul(FMul(FMul(Sign(v) * sys.rho, FMul(v, v)), sys.C_d), sys.area), F(2))

\* f_drag = -np.sign(v) * rho * v**2 * C_d * area / 2
drag_force(v, sys) ==
    FDiv(FMul(FMul(FMul((-Sign(v)) * sys.rho, FMul(v, v)), sys.C_d), sys.area), F(2))

\* the spring acceleration left out of dvdt
slope_func_no_spring(st, time, sys) ==
    LET v == st[2]
        a_drag == FDiv(drag_force(v, sys), sys.mass)
    IN  <<v, -sys.g + a_drag>>

\* the drag acceleration left out of dvdt
slope_func_no_drag(st, time, sys) ==
    LET y == st[1]
        v == st[2]
        a_spring == FDiv(spring_force(y, sys), sys.mass)
    IN  <<v, -sys.g + a_spring>>

slope_func(st, time, sys) ==
    LET y == st[1]
        v == st[2]
        a_drag == FDiv(drag_force(v, sys), sys.mass)
        a_spring == FDiv(spring_force(y, sys), sys.mass)
        dvdt == -sys.g + a_drag + a_spring
    IN  <<v, dvdt>>

\* returns the height instead of the velocity
event_func_height(st, time, sys) == st[1]

\* returns the velocity with the wrong sign
event_func_negated(st, time, sys) == -st[2]

event_func(st, time, sys) == st[2]

-----------------------------------------------------------------------------
(* Values for what is not there (Python's None) *)

NoRecord == [none |-> TRUE]

-----------------------------------------------------------------------------
(* Calls of the force functions and of slope_func on drawn inputs *)

\* furthest fall below the attachment point that is drawn, in metres
MaxFall == 56

\* largest speed that is drawn, in units of 5 m/s
MaxSpeedSteps == 12

CordLengths == {F(0), F(25), F(40)}

SpringConstants == {F(0), F(40)}

Masses == {F(75), F(60)}

ForceParams ==
    {[NotebookParams EXCEPT !.L = l, !.k = kk, !.mass = m] :
        l \in CordLengths, kk \in SpringConstants, m \in Masses}

Heights(p) == {p.y_attach - F(d) : d \in -1..MaxFall}

Velocities == {F(5 * i) : i \in -MaxSpeedSteps..MaxSpeedSteps}

Times == {F(0), F(10)}

InitForce ==
    /\ args \in ForceParams
    /\ params = args
    /\ system = make_system(params)
    /\ pc = "call"
    /\ state \in Heights(params) \X Velocities
    /\ t \in Times
    /\ results = <<>>
    /\ details = NoRecord
    /\ events = FALSE
    /\ solver = NoRecord
    /\ ret = <<>>

CallSpringForce ==
    /\ pc = "call"
    /\ ret' = <<spring_force(state[1], system)>>
    /\ pc' = "spring_force"
    /\ UNCHANGED <<args, params, system, state, t, results, details, events, solver>>

CallDragForce ==
    /\ pc = "call"
    /\ ret' = <<drag_force(state[2], system)>>
    /\ pc' = "drag_force"
    /\ UNCHANGED <<args, params, system, state, t, results, details, events, solver>>

CallSlopeFunc ==
    /\ pc = "call"
    /\ ret' = slope_func(state, t, system)
    /\ pc' = "slope_func"
    /\ UNCHANGED <<args, params, system, state, t, results, details, events, solver>>

NextForce == CallSpringForce \/ CallDragForce \/ CallSlopeFunc

SpecForce == InitForce /\ [][NextForce]_vars

-----------------------------------------------------------------------------
(* Properties of the force functions and of slope_func (SpecForce) *)

Fallen == system.y_attach - state[1]

\* C1: spring_force(y) is exactly zero_force = 0 while y_attach - y <= L (the
\* boundary y_attach - y = L included) and k * ((y_attach - y) - L) beyond it
\* (k being a whole number of N/m here, the product is exact); it is never
\* negative, does not decrease at any lower height, changes by at most k per
\* metre across any two neighbouring heights (so there is no jump at the
\* threshold), and an extension of 1 m gives a force of k.
C1_SpringForce ==
    pc = "spring_force" =>
        LET f == ret[1]
            kN == system.k \div Scale
        IN  /\ Fallen <= system.L => f = 0
            /\ Fallen > system.L => f = kN * (Fallen - system.L)
            /\ f >= 0
            /\ \A y2 \in Heights(params) : y2 <= state[1] => spring_force(y2, system) >= f
            /\ Abs(spring_force(state[1] - F(1), system) - f) <= system.k
            /\ spring_force(system.y_attach - system.L, system) = 0
            /\ spring_force(system.y_attach - system.L - F(1), system) = system.k

\* the cord is stretched by exactly 1 m and pulls with k > 0
C1_Witness ==
    /\ pc = "spring_force"
    /\ system.k > 0
    /\ Fallen = system.L + F(1)
    /\ ret = <<system.k>>

\* C2: drag_force is odd in v, is 0 at v = 0, and for v # 0 has the sign opposite
\* to v (velocities drawn in steps of 5 m/s up to MaxSpeedSteps steps).
C2_DragOdd ==
    pc = "drag_force" =>
        LET v == state[2]
            f == ret[1]
        IN  /\ drag_force(-v, system) = -f
            /\ v = 0 => f = 0
            /\ v # 0 => Sign(f) = -Sign(v)

\* an upward velocity met by a downward drag
C2_Witness ==
    /\ pc = "drag_force"
    /\ state[2] > 0
    /\ ret[1] < 0

\* the stated tolerance: 1e-3 relative to g
Tolerance(sys) == FDiv(sys.g, F(1000))

\* C3: with C_d from make_system, at v = -v_term and the cord slack the drag
\* acceleration equals g and slope_func's dvdt is 0, both within 1e-3 * g.
C3_TerminalVelocity ==
    (pc = "slope_func" /\ state[2] = -system.v_term /\ Fallen <= system.L) =>
        /\ Abs(FDiv(drag_force(state[2], system), system.mass) - system.g) <= Tolerance(system)
        /\ Abs(ret[2]) <= Tolerance(system)
        /\ ret[1] = -system.v_term

\* slope_func was called at terminal velocity with a slack cord
C3_Witness ==
    /\ pc = "slope_func"
    /\ state[2] = -system.v_term
    /\ Fallen <= system.L
    /\ system.L > 0
    /\ Abs(ret[2]) <= Tolerance(system)

\* C4: slope_func returns (v, -g + drag_force(v)/mass + spring_force(y)/mass),
\* the same for every t, (0, -g) at the initial state, and the call leaves the
\* state and the system as they were.
C4_SlopeFunc ==
    [][pc' = "slope_func" =>
        LET y == state[1]
            v == state[2]
        IN  /\ ret' = <<v, -system.g + FDiv(drag_force(v, system), system.mass)
                                    + FDiv(spring_force(y, system), system.mass)>>
            /\ \A t2 \in Times : slope_func(state, t2, system) = ret'
            /\ state = system.init => ret' = <<0, -system.g>>
            /\ state' = state
            /\ system' = system
            /\ t' = t]_vars

\* slope_func was called at a later time with the cord stretched and pulling
C4_Witness ==
    /\ pc = "slope_func"
    /\ t = F(10)
    /\ state[2] < 0
    /\ spring_force(state[1], system) > 0
    /\ ret[2] > -system.g

-----------------------------------------------------------------------------
(* The notebook's run: Params(...), make_system, run_ode_solver             *)
(*                                                                          *)
(* Params and run_ode_solver come from the modsim module the notebook       *)
(* imports; they follow the design description:                             *)
(* Params checks its invariant at construction, and the integrator is a     *)
(* fixed-step explicit Runge-Kutta solver (Heun's second-order method) that *)
(* watches the event predicate for a change of sign from negative to        *)
(* non-negative between two consecutive steps, refines the crossing by      *)
(* interpolation and ends the run there.  One Step is one iteration of the  *)
(* solver's loop; results grows by one row per iteration.                   *)

\* the check of k >= 0 forgotten
ValidParams_no_k(a) ==
    /\ a.mass > 0
    /\ a.area > 0
    /\ a.L >= 0

\* Invariant of Params: mass > 0, area > 0, resting length >= 0, spring constant >= 0
ValidParams(a) ==
    /\ a.mass > 0
    /\ a.area > 0
    /\ a.L >= 0
    /\ a.k >= 0

\* step of the fixed-step solver: 0.05 s
Dt == Dec(5, 100)

Min2(a, b) == IF a <= b THEN a ELSE b

Row(time, st) == [t |-> time, y |-> st[1], v |-> st[2]]

\* one step of size h of Heun's method on slope_func
HeunStep(st, time, h, sys) ==
    LET k1 == slope_func(st, time, sys)
        pred == <<st[1] + FMul(k1[1], h), st[2] + FMul(k1[2], h)>>
        k2 == slope_func(pred, time + h, sys)
    IN  <<st[1] + FMul(FDiv(k1[1] + k2[1], F(2)), h),
          st[2] + FMul(FDiv(k1[2] + k2[2], F(2)), h)>>

\* the event predicate changes sign from negative to non-negative over the step
Crossing(g_old, g_new) == g_old < 0 /\ g_new >= 0

\* length of the partial step to the crossing, by linear interpolation of the predicate
CrossingStep(g_old, g_new, h) == FDiv(FMul(-g_old, h), g_new - g_old)

ValidChoices ==
    {NotebookParams,
     [NotebookParams EXCEPT !.k = F(0)],
     [NotebookParams EXCEPT !.L = F(0)],
     [NotebookParams EXCEPT !.L = F(40), !.k = F(20)],
     [NotebookParams EXCEPT !.mass = F(60)],
     [NotebookParams EXCEPT !.k = F(0), !.L = F(0), !.mass = F(60)]}

InvalidChoices ==
    {[NotebookParams EXCEPT !.mass = F(0)],
     [NotebookParams EXCEPT !.mass = F(-75)],
     [NotebookParams EXCEPT !.area = F(0)],
     [NotebookParams EXCEPT !.area = F(-1)],
     [NotebookParams EXCEPT !.L = F(-1)],
     [NotebookParams EXCEPT !.k = F(-1)]}

Init ==
    /\ args \in ValidChoices \cup InvalidChoices
    /\ params = NoRecord
    /\ system = NoRecord
    /\ pc = "new"
    /\ state = <<>>
    /\ t = 0
    /\ results = <<>>
    /\ details = NoRecord
    /\ events = FALSE
    /\ solver = NoRecord
    /\ ret = <<>>

\* params = Params(...)
NewParams ==
    /\ pc = "new"
    /\ IF ValidParams(args)
       THEN params' = args /\ pc' = "params"
       ELSE params' = NoRecord /\ pc' = "InvalidParameters"
    /\ UNCHANGED <<args, system, state, t, results, details, events, solver, ret>>

\* system = make_system(params)
MakeSystem ==
    /\ pc = "params"
    /\ system' = make_system(params)
    /\ pc' = "system"
    /\ UNCHANGED <<args, params, state, t, results, details, events, solver, ret>>

\* results, details = run_ode_solver(system, slope_func): the notebook's first
\* run, without events; the solver starts from system.init at time 0
RunOdeSolver ==
    /\ pc = "system"
    /\ events' = FALSE
    /\ state' = system.init
    /\ t' = 0
    /\ results' = <<Row(0, system.init)>>
    /\ details' = NoRecord
    /\ pc' = "running"
    /\ UNCHANGED <<args, params, system, solver, ret>>

\* results, details = run_ode_solver(system, slope_func, events=event_func): the
\* notebook's second run, made on the same system once the first has finished;
\* it starts again from system.init at time 0 and rebinds results and details
RunOdeSolverEvents ==
    /\ pc = "done"
    /\ ~events
    /\ events' = TRUE
    /\ state' = system.init
    /\ t' = 0
    /\ results' = <<Row(0, system.init)>>
    /\ details' = NoRecord
    /\ pc' = "running"
    /\ UNCHANGED <<args, params, system, solver, ret>>

\* one iteration of the solver's loop
Step ==
    /\ pc = "running"
    /\ LET h == Min2(Dt, system.t_end - t)
           nxt == HeunStep(state, t, h, system)
           g_old == event_func(state, t, system)
           g_new == event_func(nxt, t + h, system)
       IN  IF events /\ Crossing(g_old, g_new)
           THEN LET hh == CrossingStep(g_old, g_new, h)
                    ev == HeunStep(state, t, hh, system)
                IN  /\ state' = ev
                    /\ t' = t + hh
                    /\ results' = Append(results, Row(t + hh, ev))
                    /\ details' = [status |-> 1, t_events |-> <<t + hh>>]
                    /\ pc' = "done"
           ELSE /\ state' = nxt
                /\ t' = t + h
                /\ results' = Append(results, Row(t + h, nxt))
                /\ IF t + h >= system.t_end
                   THEN /\ details' = [status |-> 0, t_events |-> <<>>]
                        /\ pc' = "done"
                   ELSE /\ details' = details
                        /\ pc' = "running"
    /\ UNCHANGED <<args, params, system, events, solver, ret>>

Next == NewParams \/ MakeSystem \/ RunOdeSolver \/ RunOdeSolverEvents \/ Step

Spec == Init /\ [][Next]_vars

-----------------------------------------------------------------------------
(* Properties of the runs (Spec) *)

InRun == pc \in {"running", "done"}

LastRow == results[Len(results)]

\* the run was ended by the event
Stopped == pc = "done" /\ details.t_events # <<>>

\* min(results.y)
MinY(res) ==
    CHOOSE m \in {res[i].y : i \in 1..Len(res)} :
        \A i \in 1..Len(res) : m <= res[i].y

\* how close to zero the event predicate is at the reported crossing: 0.01 m/s
EventTol == Dec(1, 100)

\* C5: in a run with events=event_func, started with v_init = 0: the initial
\* state does not stop the run (the second row is a full step later); every row
\* after the first and before the one the run stopped on has a negative velocity,
\* so the reported crossing is the first one and no row follows it; the run
\* stopped on the event ends before t_end, at the reported event time, in the
\* step over which the velocity goes from negative to non-negative, with the
\* velocity there zero within EventTol.
C5_EventStopsRun ==
    (events /\ InRun) =>
        LET n == Len(results)
        IN  /\ results[1] = Row(0, <<system.y_attach, 0>>)
            /\ n >= 2 => results[2].t = Dt /\ results[2].v < 0
            /\ \A i \in 2..n : (i < n \/ pc = "running") => results[i].v < 0
            /\ pc = "done" => n > 2
            /\ Stopped =>
                /\ details.t_events = <<LastRow.t>>
                /\ LastRow.t < system.t_end
                /\ LastRow.t = t
                /\ results[n-1].t < LastRow.t
                /\ LastRow.t <= results[n-1].t + Dt
                /\ Abs(LastRow.v) <= EventTol
                /\ HeunStep(<<results[n-1].y, results[n-1].v>>, results[n-1].t, Dt, system)[2] >= 0

\* the notebook's run with the event has stopped at the bottom of the jump
C5_Witness ==
    /\ events
    /\ Stopped
    /\ args = NotebookParams
    /\ Len(results) > 100
    /\ results[Len(results) - 1].v < 0

\* C6: a run in which no crossing was reported ends at t_end exactly, having
\* produced a row every Dt from 0 to t_end, with status 0 and no event; and with
\* k = 0 and v_init = 0 the velocity is negative after the first step, strictly
\* smaller at every step, always above -v_term, and the finished run reports no event.
C6_NoCrossing ==
    InRun =>
        LET n == Len(results)
        IN  /\ (pc = "done" /\ details.t_events = <<>>) =>
                /\ details.status = 0
                /\ LastRow.t = system.t_end
                /\ t = system.t_end
                /\ results[1].t = 0
                /\ \A i \in 2..n : results[i].t = results[i-1].t + Dt
            /\ (system.k = 0 /\ system.v_init = 0) =>
                /\ \A i \in 2..n :
                      /\ results[i].v < 0
                      /\ results[i].v < results[i-1].v
                      /\ results[i].v > -system.v_term
                /\ pc = "done" => details.t_events = <<>>

\* free fall with drag (k = 0), run with the event predicate, reached t_end with no event
C6_Witness ==
    /\ events
    /\ pc = "done"
    /\ system.k = 0
    /\ details.t_events = <<>>
    /\ t = F(T_END)
    /\ LastRow.v < 0

\* C7 as stated: for the notebook's parameters the run with the event predicate
\* reports a lowest point between 14 m and 16 m, above 0 and below 80.
C7_Original ==
    (events /\ pc = "done" /\ args = NotebookParams) =>
        /\ Stopped
        /\ MinY(results) >= F(14)
        /\ MinY(results) <= F(16)
        /\ MinY(results) > 0
        /\ MinY(results) < F(80)

\* C7 amended: for the notebook's parameters the run with the event predicate
\* reports a lowest point of about 5 m (between 5 m and 6 m), above 0 and below
\* 80: the jumper does not reach the ground.
C7_LowestPoint ==
    (events /\ pc = "done" /\ args = NotebookParams) =>
        /\ Stopped
        /\ MinY(results) >= F(5)
        /\ MinY(results) <= F(6)
        /\ MinY(results) > 0
        /\ MinY(results) < F(80)

\* the notebook's run has stopped with its lowest point above the ground
C7_Witness ==
    /\ events
    /\ Stopped
    /\ args = NotebookParams
    /\ MinY(results) = LastRow.y
    /\ MinY(results) > 0

\* C9: parameters with mass <= 0, area <= 0, L < 0 or k < 0 end in
\* InvalidParameters at construction: no Params object, no System, no run; and
\* whatever is constructed, made into a system or integrated has mass > 0,
\* area > 0, L >= 0 and k >= 0.
C9_InvalidParameters ==
    /\ (pc # "new" /\ (args.mass <= 0 \/ args.area <= 0 \/ args.L < 0 \/ args.k < 0)) =>
          /\ pc = "InvalidParameters"
          /\ params = NoRecord
          /\ system = NoRecord
          /\ state = <<>>
          /\ results = <<>>
    /\ pc \in {"params", "system", "running", "done"} =>
          (params.mass > 0 /\ params.area > 0 /\ params.L >= 0 /\ params.k >= 0)
    /\ InRun =>
          (system.mass > 0 /\ system.area > 0 /\ system.L >= 0 /\ system.k >= 0)

\* a negative spring constant was refused
C9_Witness ==
    /\ pc = "InvalidParameters"
    /\ args.k < 0
    /\ params = NoRecord

\* C10: in a run with the event predicate started at y_attach with v_init = 0,
\* every row before the last has velocity <= 0, the heights never increase from
\* one row to the next and never exceed y_attach, and once the run has stopped
\* on the event min(results.y) is the height of the last row.
C10_MinIsLast ==
    (events /\ InRun /\ system.v_init = 0) =>
        LET n == Len(results)
        IN  /\ results[1].y = system.y_attach
            /\ \A i \in 1..(n-1) :
                  /\ results[i].v <= 0
                  /\ results[i+1].y <= results[i].y
            /\ \A i \in 1..n : results[i].y <= system.y_attach
            /\ Stopped => MinY(results) = LastRow.y

\* a run with a longer cord has stopped, its last row being the lowest
C10_Witness ==
    /\ events
    /\ Stopped
    /\ args.L = F(40)
    /\ MinY(results) = LastRow.y
    /\ LastRow.y < results[Len(results) - 1].y

-----------------------------------------------------------------------------
(* Solving for the cord length (the notebook's last exercise)               *)
(*                                                                          *)
(* The notebook leaves the error function and the call of root_scalar to    *)
(* the reader.  They follow the design description: error(L) is the lowest  *)
(* point of a run with the event predicate for the parameters with L        *)
(* replaced, minus the target height; the solver is a bisection on a        *)
(* bracket whose end points must give errors of opposite sign, returning    *)
(* when the error magnitude is within the tolerance and failing with        *)
(* ConvergenceFailure after the maximum number of iterations.               *)

\* largest iteration limit a search is configured with
MaxIterations == 30

SolverConfigs ==
    {[lo |-> F(l[1]), hi |-> F(l[2]), tol |-> tl, maxiter |-> mi, target |-> F(0)] :
        l \in {<<25, 35>>, <<25, 40>>, <<20, 25>>},
        tl \in {Dec(1, 100), Dec(1, 1000)},
        mi \in {3, MaxIterations}}

\* convergence judged by the width of the bracket instead of by the error
Converged_by_bracket(s, err) == s.hi - s.lo <= F(2)

\* the error magnitude is within the configured tolerance
Converged(s, err) == Abs(err) <= s.tol

Midpoint(lo, hi) == FDiv(lo + hi, F(2))

InitSolve ==
    /\ args = NotebookParams
    /\ params = args
    /\ system = NoRecord
    /\ pc = "solve"
    /\ state = <<>>
    /\ t = 0
    /\ results = <<>>
    /\ details = NoRecord
    /\ events = TRUE
    /\ \E c \in SolverConfigs :
          solver = [lo |-> c.lo, hi |-> c.hi, tol |-> c.tol, maxiter |-> c.maxiter,
                    target |-> c.target, f_lo |-> 0, f_hi |-> 0, stage |-> "lo",
                    x |-> c.lo, iter |-> 0, err |-> 0]
    /\ ret = <<>>

\* error(L), first half: Params(params, L=L), make_system, and the start of
\* run_ode_solver(system, slope_func, events=event_func)
Simulate ==
    /\ pc = "solve"
    /\ LET p == [args EXCEPT !.L = solver.x]
       IN  /\ ValidParams(p)
           /\ params' = p
           /\ system' = make_system(p)
           /\ state' = make_system(p).init
           /\ results' = <<Row(0, make_system(p).init)>>
    /\ t' = 0
    /\ details' = NoRecord
    /\ events' = TRUE
    /\ pc' = "running"
    /\ UNCHANGED <<args, solver, ret>>

\* error(L), second half, and the solver's use of it
SolverUpdate ==
    /\ pc = "done"
    /\ LET err == MinY(results) - solver.target
           s == [solver EXCEPT !.err = err]
       IN  CASE solver.stage = "lo" ->
                  IF Converged(s, err)
                  THEN /\ solver' = [s EXCEPT !.f_lo = err]
                       /\ pc' = "returned"
                  ELSE /\ solver' = [s EXCEPT !.f_lo = err, !.stage = "hi", !.x = s.hi]
                       /\ pc' = "solve"
            [] solver.stage = "hi" ->
                  IF Converged(s, err)
                  THEN /\ solver' = [s EXCEPT !.f_hi = err]
                       /\ pc' = "returned"
                  ELSE IF Sign(err) = Sign(s.f_lo)
                  THEN /\ solver' = [s EXCEPT !.f_hi = err]
                       /\ pc' = "InvalidBracket"
                  ELSE /\ solver' = [s EXCEPT !.f_hi = err, !.stage = "mid",
                                              !.x = Midpoint(s.lo, s.hi), !.iter = 1]
                       /\ pc' = "solve"
            [] solver.stage = "mid" ->
                  IF Converged(s, err)
                  THEN /\ solver' = s
                       /\ pc' = "returned"
                  ELSE IF s.iter >= s.maxiter
                  THEN /\ solver' = s
                       /\ pc' = "ConvergenceFailure"
                  ELSE IF Sign(err) = Sign(s.f_lo)
                  THEN /\ solver' = [s EXCEPT !.lo = s.x, !.f_lo = err,
                                              !.x = Midpoint(s.x, s.hi), !.iter = s.iter + 1]
                       /\ pc' = "solve"
                  ELSE /\ solver' = [s EXCEPT !.hi = s.x, !.f_hi = err,
                                              !.x = Midpoint(s.lo, s.x), !.iter = s.iter + 1]
                       /\ pc' = "solve"
    /\ UNCHANGED <<args, params, system, state, t, results, details, events, ret>>

NextSolve == Simulate \/ Step \/ SolverUpdate

SpecSolve == InitSolve /\ [][NextSolve]_vars

\* C8: the search either returns L* with the error of the run made with L*
\* within the tolerance, or ends in ConvergenceFailure exactly at the iteration
\* limit with the last error above the tolerance (or refuses the bracket); it
\* never returns with an error above the tolerance; and every evaluation is a
\* run of its own: it starts at time 0 from the initial state of a system made
\* from the caller's parameters with only L replaced, and the caller's
\* parameters are never changed.
C8_DesignSolver ==
    /\ pc = "returned" =>
          /\ Abs(solver.err) <= solver.tol
          /\ solver.err = MinY(results) - solver.target
          /\ system.L = solver.x
    /\ pc = "ConvergenceFailure" =>
          /\ solver.iter = solver.maxiter
          /\ Abs(solver.err) > solver.tol
    /\ pc = "InvalidBracket" => Sign(solver.f_lo) = Sign(solver.f_hi)
    /\ solver.iter <= solver.maxiter
    /\ args = NotebookParams
    /\ InRun =>
          /\ system = make_system([args EXCEPT !.L = solver.x])
          /\ results[1] = Row(0, <<args.y_attach, args.v_init>>)
          /\ LastRow = Row(t, state)

\* the search returned after several bisections
C8_Witness ==
    /\ pc = "returned"
    /\ solver.iter > 5
    /\ Abs(solver.err) <= solver.tol
    /\ solver.x > F(28)
    /\ solver.x < F(30)

====
